---- MODULE Spec2Model ----
(***************************************************************************)
(* Model of the go-printify order client: the request builder             *)
(* (Client.newRequest), the invoker (Client.do) and the six order         *)
(* operations built on them.  One call is in flight at a time; the        *)
(* transport (http.Client.Do) is the environment and chooses its outcome. *)
(*                                                                         *)
(* Text is kept as sequences of string tokens: fmt.Sprintf appends the    *)
(* tokens of its format, so "?", "&", "page=" and the digits of a number  *)
(* stay visible to the properties.                                         *)
(***************************************************************************)
EXTENDS Integers, Sequences, FiniteSets, TLC

\* ------------------------------------------------------------------ bounds
MaxId == 1         \* shop and order identifiers range over 1..MaxId
MaxPage == 2       \* page numbers range over 1..MaxPage
MaxArrayLen == 1   \* a response array holds at most MaxArrayLen elements

\* ------------------------------------------------------- program constants
contentType == "application/json;charset=utf-8"
baseURL == "api.printify.com"
scheme == "https"
ApiVersion == "v1"
UserAgent == "alhasaniq/go-printify v1.0.2"

\* ------------------------------------------------------------- Go values
Nil == [t |-> "nil"]                   \* nil pointer, nil slice, nil error
Str(s) == [t |-> "str", s |-> s]       \* a string (behind a non-nil *string)
Num(n) == [t |-> "num", n |-> n]       \* a number
NaN == [t |-> "nan"]                   \* the float32 value NaN

\* ---------------------------------------------------------- JSON documents
JEmpty == [j |-> "empty"]              \* zero bytes
JBad == [j |-> "bad"]                  \* bytes that are not JSON
JNull == [j |-> "null"]
JStr(s) == [j |-> "str", s |-> s]
JNum(n) == [j |-> "num", n |-> n]
JObj(m) == [j |-> "obj", m |-> m]      \* m: function from keys to JSON values
JArr(a) == [j |-> "arr", a |-> a]      \* a: sequence of JSON values

\* %d of fmt.Sprintf
Digit(d) ==
  CASE d = 0 -> "0" [] d = 1 -> "1" [] d = 2 -> "2" [] d = 3 -> "3"
    [] d = 4 -> "4" [] d = 5 -> "5" [] d = 6 -> "6" [] d = 7 -> "7"
    [] d = 8 -> "8" [] d = 9 -> "9"

RECURSIVE IntStr(_)
IntStr(n) == IF n < 10 THEN Digit(n) ELSE IntStr(n \div 10) \o Digit(n % 10)

\* ------------------------------------------------------------ struct types
\* The fields of each struct that the model keeps: Go name, JSON key, Go type.
Order_Fields ==
  { [name |-> "Id", key |-> "id", type |-> "*string"],
    [name |-> "TotalPrice", key |-> "total_price", type |-> "*float32"],
    [name |-> "ShippingMethod", key |-> "shipping_method", type |-> "int"] }

ShippingCost_Fields ==
  { [name |-> "Standard", key |-> "standard", type |-> "float32"],
    [name |-> "Express", key |-> "express", type |-> "float32"] }

OrderSubmitResponse_Fields ==
  { [name |-> "ID", key |-> "id", type |-> "*string"] }

FieldsOf(ty) ==
  CASE ty = "Order" -> Order_Fields
    [] ty = "ShippingCost" -> ShippingCost_Fields
    [] ty = "OrderSubmitResponse" -> OrderSubmitResponse_Fields

\* The zero value of a Go type.
ZeroOf(type) == IF type \in {"*string", "*float32"} THEN Nil ELSE Num(0)

Struct(ty, f) == [t |-> "struct", ty |-> ty, f |-> f]

\* &T{}: every field holds its zero value.
ZeroStruct(ty) ==
  Struct(ty, [n \in {fd.name : fd \in FieldsOf(ty)} |->
                ZeroOf((CHOOSE fd \in FieldsOf(ty) : fd.name = n).type)])

Slice(items) == [t |-> "slice", items |-> items]

\* ------------------------------------------------------------ encoding/json
NoErr == Nil
Err(step, cause) == [t |-> "err", step |-> step, cause |-> cause]
StatusErr(code) == [t |-> "err", step |-> "status", code |-> code]

\* json.Encoder.Encode of an *Order: a NaN float is an UnsupportedValueError;
\* omitempty drops nil pointers.
Encode(step, body) ==
  IF \E n \in DOMAIN body.f : body.f[n] = NaN
  THEN [doc |-> JEmpty, err |-> Err(step, "unsupported value")]
  ELSE LET present == { fd \in FieldsOf(body.ty) : body.f[fd.name] # Nil }
           toJ(v) == IF v.t = "str" THEN JStr(v.s) ELSE JNum(v.n)
       IN [doc |-> JObj([k \in {fd.key : fd \in present} |->
                          toJ(body.f[(CHOOSE fd \in present : fd.key = k).name])]),
           err |-> NoErr]

\* Whether the JSON value jv can be stored in a field of Go type `type`.
Fits(jv, type) ==
  \/ jv.j = "null"
  \/ type = "*string" /\ jv.j = "str"
  \/ type \in {"*float32", "float32", "int"} /\ jv.j = "num"

\* The value of a field of Go type `type` after decoding jv into it.
Store(jv, type, old) ==
  CASE jv.j = "null" -> IF type \in {"*string", "*float32"} THEN Nil ELSE old
    [] jv.j = "str" -> Str(jv.s)
    [] jv.j = "num" -> Num(jv.n)

\* Decoding a JSON object into a struct: known keys whose value fits are
\* stored, unknown keys are skipped, a value of the wrong type leaves its
\* field alone and is reported (UnmarshalTypeError) after the whole object
\* was processed.
DecodeObject(step, m, v) ==
  LET fds == FieldsOf(v.ty)
      hit == { fd \in fds : fd.key \in DOMAIN m }
      bad == { fd \in hit : ~Fits(m[fd.key], fd.type) }
      fdOf(n) == CHOOSE fd \in fds : fd.name = n
  IN [v |-> Struct(v.ty,
              [n \in DOMAIN v.f |->
                 IF fdOf(n) \in hit \ bad
                 THEN Store(m[fdOf(n).key], fdOf(n).type, v.f[n])
                 ELSE v.f[n]]),
      err |-> IF bad = {} THEN NoErr ELSE Err(step, "type")]

\* Decoding one JSON value into a struct.
DecodeStruct(step, jv, v) ==
  CASE jv.j = "null" -> [v |-> v, err |-> NoErr]
    [] jv.j = "obj" -> DecodeObject(step, jv.m, v)
    [] OTHER -> [v |-> v, err |-> Err(step, "type")]

\* Decoding one JSON value into a []*Order: null makes the slice nil, an
\* array replaces the elements (each a fresh Order), anything else is an
\* UnmarshalTypeError that leaves the slice alone.
DecodeSlice(step, jv, v) ==
  CASE jv.j = "null" -> [v |-> Nil, err |-> NoErr]
    [] jv.j = "arr" ->
         LET el(i) == IF jv.a[i].j = "null"
                      THEN [v |-> Nil, err |-> NoErr]
                      ELSE DecodeStruct(step, jv.a[i], ZeroStruct("Order"))
         IN [v |-> Slice([i \in 1..Len(jv.a) |-> el(i).v]),
             err |-> IF \A i \in 1..Len(jv.a) : el(i).err = NoErr
                     THEN NoErr ELSE Err(step, "type")]
    [] OTHER -> [v |-> v, err |-> Err(step, "type")]

\* json.Decoder.Decode / json.Unmarshal of the bytes doc into destination v:
\* no bytes and malformed bytes are rejected before v is touched.
Decode(step, doc, v) ==
  CASE doc.j = "empty" -> [v |-> v, err |-> Err(step, "EOF")]
    [] doc.j = "bad" -> [v |-> v, err |-> Err(step, "syntax")]
    [] v.t = "struct" -> DecodeStruct(step, doc, v)
    [] OTHER -> DecodeSlice(step, doc, v)

\* json.Unmarshal checks the whole input first: no bytes is a syntax error
\* ("unexpected end of JSON input"), not io.EOF.
Unmarshal(step, doc, v) ==
  IF doc.j = "empty"
  THEN [v |-> v, err |-> Err(step, "unexpected end of JSON input")]
  ELSE Decode(step, doc, v)

\* ------------------------------------------------------------------ net/url
\* The index of the first token of s equal to tok, 0 when there is none.
IndexOf(s, tok) ==
  IF \E i \in DOMAIN s : s[i] = tok
  THEN CHOOSE i \in DOMAIN s : s[i] = tok /\ \A k \in 1..(i - 1) : s[k] # tok
  ELSE 0

\* URL.EscapedPath: in a path only "?" is escaped.
EscapePath(p) == [i \in DOMAIN p |-> IF p[i] = "?" THEN "%3F" ELSE p[i]]

\* The inverse of EscapePath, applied by the parser to the path it cut out.
UnescapePath(p) == [i \in DOMAIN p |-> IF p[i] = "%3F" THEN "?" ELSE p[i]]

\* Escaping of the host by URL.String: a space becomes %20.
EscapeHost(h) == [i \in DOMAIN h |-> IF h[i] = " " THEN "%20" ELSE h[i]]

\* URL.ResolveReference of a relative path against a base with no path.
ResolveReference(base, rel) ==
  [Scheme |-> base.Scheme, Host |-> base.Host, Path |-> <<"/">> \o rel.Path]

\* URL.String
URLString(u) == <<u.Scheme, "://">> \o EscapeHost(u.Host) \o EscapePath(u.Path)

\* url.Parse as http.NewRequest applies it to scheme://host/path[?query]:
\* the query starts after the first literal "?", and a %-escape in the host
\* is rejected.
Parse(s) ==
  LET rest == SubSeq(s, 3, Len(s))
      q == IndexOf(rest, "?")
      front == IF q = 0 THEN rest ELSE SubSeq(rest, 1, q - 1)
      slash == IndexOf(front, "/")
      host == IF slash = 0 THEN front ELSE SubSeq(front, 1, slash - 1)
      path == IF slash = 0 THEN <<>> ELSE SubSeq(front, slash, Len(front))
  IN [url |-> [Scheme |-> s[1], Host |-> host, Path |-> UnescapePath(path),
               RawQuery |-> IF q = 0 THEN <<>> ELSE SubSeq(rest, q + 1, Len(rest))],
      err |-> IF \E i \in DOMAIN host : host[i] = "%20"
              THEN Err("construct", "invalid URL escape") ELSE NoErr]

\* ------------------------------------------------------------------- Client
NewClient(apiKey) ==
  [BaseURL |-> [Scheme |-> scheme, Host |-> <<baseURL>>],
   UserAgent |-> UserAgent, apiKey |-> apiKey, ApiVersion |-> ApiVersion]

\* The headers newRequest sets.
Headers(c, body) ==
  LET always == ("Accept" :> "application/json")
                @@ ("User-Agent" :> c.UserAgent)
                @@ ("Authorization" :> ("Bearer " \o c.apiKey))
  IN IF body # Nil THEN ("Content-Type" :> contentType) @@ always ELSE always

\* Client.newRequest: the request, or the error of the body encoder or of
\* http.NewRequest.
newRequest(c, method, path, body) ==
  LET rel == [Path |-> <<c.ApiVersion, "/">> \o path]
      u == ResolveReference(c.BaseURL, rel)
      enc == IF body # Nil THEN Encode("serialize", body)
             ELSE [doc |-> JEmpty, err |-> NoErr]
      parsed == Parse(URLString(u))
  IN IF enc.err # NoErr THEN [req |-> Nil, err |-> enc.err]
     ELSE IF parsed.err # NoErr THEN [req |-> Nil, err |-> parsed.err]
     ELSE [req |-> [Method |-> method, URL |-> parsed.url,
                    Body |-> IF body # Nil THEN enc.doc ELSE Nil,
                    Header |-> Headers(c, body)],
           err |-> NoErr]

\* doTail with the decode moved in front of the status check.
doTail_DecodeFirst(resp, v) ==
  LET d == Decode("decode", resp.Body.data, v)
      done == [resp EXCEPT !.Body.closed = TRUE, !.Body.unread = FALSE]
  IN IF resp.StatusCode >= 400
     THEN [resp |-> done, v |-> d.v, err |-> StatusErr(resp.StatusCode),
           ev |-> <<"read", "close", "return">>]
     ELSE [resp |-> done, v |-> d.v, err |-> d.err,
           ev |-> <<"read", "close", "return">>]

\* doTail with the decoder's error dropped.
doTail_DropDecodeErr(resp, v) ==
  LET closed == [resp EXCEPT !.Body.closed = TRUE]
  IN IF resp.StatusCode >= 400
     THEN [resp |-> closed, v |-> v, err |-> StatusErr(resp.StatusCode),
           ev |-> <<"close", "return">>]
     ELSE LET d == Decode("decode", resp.Body.data, v)
          IN [resp |-> [closed EXCEPT !.Body.unread = FALSE], v |-> d.v,
              err |-> NoErr, ev |-> <<"read", "close", "return">>]

\* doTail with the Close placed after the status check instead of deferred.
doTail_CloseAfterCheck(resp, v) ==
  IF resp.StatusCode >= 400
  THEN [resp |-> resp, v |-> v, err |-> StatusErr(resp.StatusCode),
        ev |-> <<"return">>]
  ELSE LET d == Decode("decode", resp.Body.data, v)
       IN [resp |-> [resp EXCEPT !.Body.closed = TRUE, !.Body.unread = FALSE],
           v |-> d.v, err |-> d.err, ev |-> <<"read", "close", "return">>]

\* The part of Client.do after the transport delivered resp (lines 75-82):
\* the status check, the decode into v, and the deferred Close.  ev lists
\* what happened to the body stream, in order.
doTail(resp, v) ==
  LET closed == [resp EXCEPT !.Body.closed = TRUE]
  IN IF resp.StatusCode >= 400
     THEN [resp |-> closed, v |-> v, err |-> StatusErr(resp.StatusCode),
           ev |-> <<"close", "return">>]
     ELSE LET d == Decode("decode", resp.Body.data, v)
          IN [resp |-> [closed EXCEPT !.Body.unread = FALSE], v |-> d.v,
              err |-> d.err, ev |-> <<"read", "close", "return">>]

\* ioutil.ReadAll on a response body: an open stream yields what is left of
\* it (nothing once the decoder has consumed it).  A closed stream yields
\* nothing when it is the transport's own body (the read fails and the
\* caller drops that error), and what is left when Close is a no-op, as for
\* a body built with ioutil.NopCloser.
ReadAll(body) ==
  IF (body.closed /\ body.impl = "http") \/ ~body.unread
  THEN JEmpty ELSE body.data

\* ---------------------------------------------------------------- paths
getShopOrdersPath(shopId) == <<"shops/", IntStr(shopId), "/orders.json">>
getShopOrderPath(shopId, orderId) ==
  <<"shops/", IntStr(shopId), "/orders/", IntStr(orderId), ".json">>
sendOrderToProductionPath(shopId, orderId) ==
  <<"shops/", IntStr(shopId), "/orders/", IntStr(orderId), "/send_to_production.json">>
getShippingCostsPath(shopId) == <<"shops/", IntStr(shopId), "/orders/shipping.json">>
cancelOrderPath(shopId, orderId) ==
  <<"shops/", IntStr(shopId), "/orders/", IntStr(orderId), "/cancel.json">>

\* The path ListShopOrders builds (lines 106-120).
ListShopOrdersPath(shopId, page, limit, statusFilter) ==
  LET p0 == getShopOrdersPath(shopId)
      p1 == IF page # Nil \/ limit # Nil \/ statusFilter # Nil
            THEN p0 \o <<"?">> ELSE p0
      p2 == IF page # Nil THEN p1 \o <<"page=", IntStr(page.n)>> ELSE p1
      p3 == IF limit # Nil THEN p2 \o <<"&", "limit=", IntStr(limit.n)>> ELSE p2
  IN IF statusFilter # Nil THEN p3 \o <<"&", "status=", statusFilter.s>> ELSE p3

\* ------------------------------------------------------------ input domains
Ids == 1..MaxId
OptInts(S) == {Nil} \cup {Num(n) : n \in S}
Pages == OptInts(1..MaxPage)
Limits == OptInts({10})
StatusFilters == {Nil, Str("pending")}
Hosts == {<<baseURL>>, <<"bad", " ", "host">>}

\* Orders a caller passes: a minimal one, one that already has an id, and
\* one whose price is NaN (which the encoder rejects).
Orders ==
  LET z == ZeroStruct("Order")
  IN { [z EXCEPT !.f.ShippingMethod = Num(1)],
       [z EXCEPT !.f.Id = Str("old"), !.f.ShippingMethod = Num(1)],
       [z EXCEPT !.f.TotalPrice = NaN] }

\* Response bodies the transport may deliver.
ElemDocs == {JObj([id |-> JStr("abc123")]), JObj([id |-> JNum(7)]), JNull}
ArrayDocs == {JArr(a) : a \in UNION {[1..n -> ElemDocs] : n \in 0..MaxArrayLen}}
Docs ==
  {JEmpty, JBad, JNull, JStr("ok"),
   JObj([id |-> JStr("abc123")]),
   JObj([id |-> JNum(7), shipping_method |-> JNum(2)]),
   JObj([message |-> JStr("Not found")]),
   JObj([standard |-> JNum(4), express |-> JNum(9)])} \cup ArrayDocs
StatusCodes == {200, 399, 400, 404}
BodyImpls == {"http", "nop"}
TransportErr == Err("transport", "connection refused")

\* -------------------------------------------------------------------- state
VARIABLES
  client,   \* the Client
  pc,       \* where the call in flight is: "idle", "do" (about to send),
            \* "inDo" (response delivered), "doReturned", "returned", "panicked"
  op,       \* the operation in flight
  args,     \* its arguments
  req,      \* the request newRequest built, Nil when it failed
  resp,     \* the response the transport delivered, Nil when there is none
  v,        \* the destination handed to do
  v0,       \* the destination as it was when do was called
  doRet,    \* what do returned: [resp, err]
  result,   \* first value the operation returned
  err,      \* error the operation returned
  failed,   \* the error of the step that failed during this call, if any
  events    \* what the call did on the network and the body stream, in order

vars == <<client, pc, op, args, req, resp, v, v0, doRet, result, err, failed, events>>

NoRet == [resp |-> Nil, err |-> NoErr]

Init ==
  /\ client = NewClient("key")
  /\ pc = "idle"
  /\ op = ""
  /\ args = Nil
  /\ req = Nil
  /\ resp = Nil
  /\ v = Nil
  /\ v0 = Nil
  /\ doRet = NoRet
  /\ result = Nil
  /\ err = NoErr
  /\ failed = NoErr
  /\ events = <<>>

CanCall == pc \in {"idle", "returned"}

\* The caller overrides the exported BaseURL of its Client between calls.
SetBaseURL(h) ==
  /\ CanCall
  /\ client' = [client EXCEPT !.BaseURL.Host = h]
  /\ UNCHANGED <<pc, op, args, req, resp, v, v0, doRet, result, err, failed, events>>

\* The common head of the six operations: build the request, return
\* (nil, err) when that fails, otherwise make the destination and call do.
Begin(name, a, method, path, body, dest) ==
  LET r == newRequest(client, method, path, body)
  IN /\ CanCall
     /\ op' = name
     /\ args' = a
     /\ req' = r.req
     /\ resp' = Nil
     /\ doRet' = NoRet
     /\ result' = Nil
     /\ err' = r.err
     /\ failed' = r.err
     /\ events' = <<>>
     /\ v' = IF r.err # NoErr THEN Nil ELSE dest
     /\ v0' = IF r.err # NoErr THEN Nil ELSE dest
     /\ pc' = IF r.err # NoErr THEN "returned" ELSE "do"
     /\ UNCHANGED client

ListShopOrders(shopId, page, limit, statusFilter) ==
  Begin("ListShopOrders",
        [shopId |-> shopId, page |-> page, limit |-> limit,
         statusFilter |-> statusFilter], "GET",
        ListShopOrdersPath(shopId, page, limit, statusFilter), Nil, Slice(<<>>))

GetOrderDetails(shopId, orderId) ==
  Begin("GetOrderDetails", [shopId |-> shopId, orderId |-> orderId], "GET",
        getShopOrderPath(shopId, orderId), Nil,
        ZeroStruct("Order"))

SubmitOrder(shopId, order) ==
  Begin("SubmitOrder", [shopId |-> shopId, order |-> order], "POST",
        getShopOrdersPath(shopId), order, order)

SendOrderToProduction(shopId, orderId) ==
  Begin("SendOrderToProduction", [shopId |-> shopId, orderId |-> orderId], "POST",
        sendOrderToProductionPath(shopId, orderId), Nil, ZeroStruct("Order"))

CalculateShippingCosts(shopId, order) ==
  Begin("CalculateShippingCosts", [shopId |-> shopId, order |-> order], "POST",
        getShippingCostsPath(shopId), order,
        ZeroStruct("ShippingCost"))

CancelOrder(shopId, orderId) ==
  Begin("CancelOrder", [shopId |-> shopId, orderId |-> orderId], "POST",
        cancelOrderPath(shopId, orderId), Nil,
        ZeroStruct("Order"))

\* HttpDo with one more attempt after a transport failure.
HttpDo_Retry ==
  /\ pc = "do"
  /\ \/ /\ doRet' = [resp |-> Nil, err |-> TransportErr]
        /\ failed' = TransportErr
        /\ events' = events \o <<"send", "send", "return">>
        /\ pc' = "doReturned"
        /\ UNCHANGED resp
     \/ \E code \in StatusCodes, doc \in Docs, impl \in BodyImpls :
          /\ resp' = [StatusCode |-> code,
                      Body |-> [data |-> doc, unread |-> TRUE, impl |-> impl,
                                closed |-> FALSE]]
          /\ events' = events \o <<"send", "recv">>
          /\ pc' = "inDo"
          /\ UNCHANGED <<doRet, failed>>
  /\ UNCHANGED <<client, op, args, req, v, v0, result, err>>

\* Client.do, line 71-74: the transport sends the request once and either
\* fails, and do returns (nil, err), or delivers a response.
HttpDo ==
  /\ pc = "do"
  /\ \/ /\ doRet' = [resp |-> Nil, err |-> TransportErr]
        /\ failed' = TransportErr
        /\ events' = events \o <<"send", "return">>
        /\ pc' = "doReturned"
        /\ UNCHANGED resp
     \/ \E code \in StatusCodes, doc \in Docs, impl \in BodyImpls :
          /\ resp' = [StatusCode |-> code,
                      Body |-> [data |-> doc, unread |-> TRUE, impl |-> impl,
                                closed |-> FALSE]]
          /\ events' = events \o <<"send", "recv">>
          /\ pc' = "inDo"
          /\ UNCHANGED <<doRet, failed>>
  /\ UNCHANGED <<client, op, args, req, v, v0, result, err>>

\* Client.do, lines 75-82: classify, decode, close, return (resp, err).
DoFinish ==
  /\ pc = "inDo"
  /\ LET t == doTail(resp, v)
     IN /\ resp' = t.resp
        /\ v' = t.v
        /\ doRet' = [resp |-> t.resp, err |-> t.err]
        /\ failed' = t.err
        /\ events' = events \o t.ev
  /\ pc' = "doReturned"
  /\ UNCHANGED <<client, op, args, req, v0, result, err>>

\* The tail of the five operations that return the destination and do's
\* error as they are (lines 128, 142, 189, 203, 217).
ReturnDecoded ==
  /\ pc = "doReturned"
  /\ op # "SubmitOrder"
  /\ result' = v
  /\ err' = doRet.err
  /\ pc' = "returned"
  /\ UNCHANGED <<client, op, args, req, resp, v, v0, doRet, failed, events>>

\* The tail of SubmitOrder (lines 157-171).  With an error from do it reads
\* resp.Body: a nil resp makes that a nil dereference, otherwise the stream
\* do has closed is read and the bytes are unmarshalled for the id.  Without
\* an error it returns (nil, nil).
SubmitOrderReturn ==
  /\ pc = "doReturned"
  /\ op = "SubmitOrder"
  /\ IF doRet.err = NoErr
     THEN /\ result' = Nil
          /\ err' = NoErr
          /\ pc' = "returned"
          /\ UNCHANGED events
     ELSE IF doRet.resp = Nil
     THEN /\ pc' = "panicked"
          /\ events' = events \o <<"read">>
          /\ UNCHANGED <<result, err>>
     ELSE LET body == ReadAll(doRet.resp.Body)
              u == Unmarshal("unmarshal", body, ZeroStruct("OrderSubmitResponse"))
          IN /\ events' = events \o <<"read">>
             /\ result' = IF u.err # NoErr THEN Nil ELSE u.v.f.ID
             /\ err' = u.err
             /\ pc' = "returned"
  /\ UNCHANGED <<client, op, args, req, resp, v, v0, doRet, failed>>

Next ==
  \/ \E h \in Hosts : SetBaseURL(h)
  \/ \E s \in Ids, p \in Pages, l \in Limits, f \in StatusFilters :
       ListShopOrders(s, p, l, f)
  \/ \E s \in Ids, o \in Ids : GetOrderDetails(s, o)
  \/ \E s \in Ids, o \in Orders : SubmitOrder(s, o)
  \/ \E s \in Ids, o \in Ids : SendOrderToProduction(s, o)
  \/ \E s \in Ids, o \in Orders : CalculateShippingCosts(s, o)
  \/ \E s \in Ids, o \in Ids : CancelOrder(s, o)
  \/ HttpDo
  \/ DoFinish
  \/ ReturnDecoded
  \/ SubmitOrderReturn

Spec == Init /\ [][Next]_vars

\* ------------------------------------------------------------ properties
Finished == pc \in {"returned", "panicked"}
AfterDo == pc \in {"doReturned", "returned", "panicked"}
Before(i, e) == \E k \in 1..(i - 1) : events[k] = e
Sends == Cardinality({i \in DOMAIN events : events[i] = "send"})

\* C1: SubmitOrder with a valid order and a success response (status < 400)
\* whose body is {"id": "abc123"} returns the identifier "abc123" and no error.
C1_SubmitReturnsId ==
  ( /\ Finished
    /\ op = "SubmitOrder"
    /\ resp # Nil
    /\ resp.StatusCode < 400
    /\ resp.Body.data = JObj([id |-> JStr("abc123")]) )
  => (pc = "returned" /\ result = Str("abc123") /\ err = NoErr)

\* C2: when the response has a status >= 400, do returns an error carrying
\* that status code, the body is never decoded, and the destination is what
\* it was before the call.
C2_StatusErrorLeavesDestination ==
  (AfterDo /\ resp # Nil /\ resp.StatusCode >= 400)
  => /\ doRet.err = StatusErr(resp.StatusCode)
     /\ v = v0
     /\ \A i \in DOMAIN events : events[i] # "read" \/ Before(i, "return")

C2_Witness ==
  /\ pc = "doReturned"
  /\ resp # Nil
  /\ resp.StatusCode = 404
  /\ Decode("decode", resp.Body.data, v0).v # v0
  /\ doRet.err = StatusErr(404)

\* The JSON kind a field of Go type `type` takes.
KindOf(type) == IF type = "*string" THEN "str" ELSE "num"

\* jv has the shape of struct ty: null, or an object whose known keys hold
\* null or a value of the field's kind.
HasShape(jv, ty) ==
  \/ jv.j = "null"
  \/ /\ jv.j = "obj"
     /\ \A fd \in FieldsOf(ty) :
          fd.key \in DOMAIN jv.m => jv.m[fd.key].j \in {"null", KindOf(fd.type)}

\* The body doc matches the shape of the destination dest.
Matches(doc, dest) ==
  IF dest.t = "struct"
  THEN doc.j \in {"null", "obj"} /\ HasShape(doc, dest.ty)
  ELSE \/ doc.j = "null"
       \/ doc.j = "arr" /\ \A i \in DOMAIN doc.a : HasShape(doc.a[i], "Order")

C4_StepErrorReturned ==
  (Finished /\ failed # NoErr) => (pc = "returned" /\ err = failed)

\* C5: every call returns either a result with no error or an error with no
\* result, never both and never neither.
C5_ResultXorError ==
  Finished => /\ pc = "returned"
              /\ \/ result # Nil /\ err = NoErr
                 \/ result = Nil /\ err # NoErr

\* The query string that holds exactly the supplied parameters, joined by "&".
ExpectedQuery(page, limit, statusFilter) ==
  LET ps == (IF page # Nil THEN <<(<<"page=", IntStr(page.n)>>)>> ELSE <<>>)
            \o (IF limit # Nil THEN <<(<<"limit=", IntStr(limit.n)>>)>> ELSE <<>>)
            \o (IF statusFilter # Nil THEN <<(<<"status=", statusFilter.s>>)>> ELSE <<>>)
      join[i \in 0..Len(ps)] ==
        IF i = 0 THEN <<>>
        ELSE IF i = 1 THEN ps[1]
        ELSE join[i - 1] \o <<"&">> \o ps[i]
  IN join[Len(ps)]

\* C6: the request ListShopOrders sends has a query string made of exactly
\* the supplied parameters as key=value pairs joined by "&", and no query
\* string when none is supplied.
C6_QueryHoldsSuppliedParams ==
  (op = "ListShopOrders" /\ req # Nil)
  => /\ req.URL.RawQuery = ExpectedQuery(args.page, args.limit, args.statusFilter)
     /\ \A i \in DOMAIN req.URL.Path : req.URL.Path[i] # "?"

\* C7: the order sequence ListShopOrders returns is never null, on any exit
\* path.
C7_ListNeverNull ==
  (pc = "returned" /\ op = "ListShopOrders") => result # Nil

\* C8: when the transport delivered a response, its body stream is closed
\* before do returns, on every exit path.
C8_BodyClosedBeforeReturn ==
  /\ (AfterDo /\ resp # Nil) => resp.Body.closed
  /\ \A i \in DOMAIN events :
       (events[i] = "return" /\ Before(i, "recv")) => Before(i, "close")

C8_Witness ==
  /\ pc = "doReturned"
  /\ resp # Nil
  /\ resp.StatusCode = 400
  /\ resp.Body.closed
  /\ events = <<"send", "recv", "close", "return">>

\* C9: a call sends at most once: exactly once when the request was built,
\* never when request construction or body serialization failed.
C9_OneSend ==
  /\ Sends <= 1
  /\ req = Nil => Sends = 0
  /\ (AfterDo /\ req # Nil) => Sends = 1

C9_Witness ==
  /\ pc = "returned"
  /\ req # Nil
  /\ err = TransportErr
  /\ Sends = 1

\* C10: a response body is read only while it exists and is open: never
\* after do closed it, never when the transport delivered no response.
C10_ReadOnlyOpenBody ==
  \A i \in DOMAIN events :
    events[i] = "read" => (Before(i, "recv") /\ ~Before(i, "close"))

====
